---- MODULE Spec2Model ----
(***************************************************************************)
(* Model of the two synchronised queues of the repository:                 *)
(*                                                                         *)
(*   ProducerConsumerQueue<T>  (src/unnamed/part_001)  a bounded FIFO      *)
(*       guarded by mtx_, with the condition variables cv_empty_ and       *)
(*       cv_full_, driven by the producers and consumers of its main().    *)
(*   ThreadPool                (src/unnamed/part_000)  an unbounded task   *)
(*       queue guarded by queue_mutex, with one condition variable, a      *)
(*       stop flag, N worker threads and a joining destructor.             *)
(*                                                                         *)
(* A mutex is the identity of the thread that holds it (NoThread: free).   *)
(* A condition variable is the set of threads blocked in its wait().       *)
(* wait(lock, pred) is `while (!pred()) wait(lock)`: a thread that holds   *)
(* the mutex evaluates pred; when it is false the thread releases the      *)
(* mutex and joins the waiters; a notification or a spurious wakeup takes  *)
(* it out of the waiters and it must re-acquire the mutex before it        *)
(* evaluates pred again.                                                   *)
(*                                                                         *)
(* What a thread does between acquiring a mutex and releasing it is one    *)
(* action: no other thread can read or write the guarded state in between. *)
(* Acquiring the mutex is an action of its own wherever the thread is      *)
(* already inside a wait; a first acquisition by a caller that has changed *)
(* nothing yet (enqueue, ~ThreadPool) is taken together with the call.     *)
(* The pool's clients call enqueue only during the pool object's lifetime, *)
(* that is until ~ThreadPool has returned.                                 *)
(***************************************************************************)
EXTENDS Integers, Sequences, FiniteSets

\* ------------------------------------------------------------------ bounds
NumProducers == 2
NumConsumers == 2
ItemsPerProducer == 2
MaxCap == 2
NumWorkers == 2
NumClients == 2
MaxTasks == 2

NoThread == 0

VARIABLES
    \* ProducerConsumerQueue
    q_,          \* std::queue<T> q_, front first
    max_size_,   \* size_t max_size_
    mtx_,        \* holder of std::mutex mtx_
    cv_empty_,   \* threads blocked in cv_empty_.wait
    cv_full_,    \* threads blocked in cv_full_.wait
    pcQ,         \* position of each producer / consumer thread
    sent,        \* producer -> its loop counter j (pushes that returned)
    taken,       \* consumer -> its loop counter j (pops that returned)
    popped,      \* the items pop() returned, in the order they left q_
    depth,       \* q_.size() at each of those pops, before the removal
    pushed,      \* the items push() stored, in the order they entered q_
    waited,      \* per producer: its latest push() blocked in cv_full_.wait
    recording,   \* whether depth and waited are kept (fixed for a run)
    \* ThreadPool
    tasks,       \* std::queue<std::function<void()>> tasks, front first
    stop,        \* bool stop
    queue_mutex, \* holder of std::mutex queue_mutex
    condition,   \* workers blocked in condition.wait
    pcW,         \* position of each worker thread
    cur,         \* worker -> the task it moved out of the queue (0: none)
    started,     \* the tasks workers dequeued, in dequeue order
    pcC,         \* position of each client thread inside enqueue
    arg,         \* client -> the task passed to its current enqueue call
    nextTask,    \* the next fresh task identity
    accepted,    \* tasks enqueue stored (the call then returns normally)
    rejected,    \* tasks whose enqueue threw std::runtime_error
    pcD,         \* position of the thread running ~ThreadPool
    joinIdx,     \* index into `workers` of the join loop
    queuedAtStop,\* the contents of `tasks` when stop was set
    terminated   \* std::terminate was called (a task body threw)

qvars == <<q_, max_size_, mtx_, cv_empty_, cv_full_, pcQ, sent, taken, popped,
           depth, pushed, waited, recording>>
pvars == <<tasks, stop, queue_mutex, condition, pcW, cur, started, pcC, arg,
           nextTask, accepted, rejected, pcD, joinIdx, queuedAtStop,
           terminated>>
vars == <<qvars, pvars>>

\* ------------------------------------------------- ProducerConsumerQueue
Producers == 1..NumProducers
Consumers == (NumProducers + 1)..(NumProducers + NumConsumers)
QThreads == Producers \cup Consumers

\* main(): producer i (0-based) pushes i * items_per_producer + j + 1.
Item(p, j) == (p - 1) * ItemsPerProducer + j + 1
\* main(): total_items_to_consume, and the share each consumer pops.
TotalItems == NumProducers * ItemsPerProducer
\* A demo whose consumers each pop one item more than their share.
PopsPerConsumerOneMore == (TotalItems \div NumConsumers) + 1
PopsPerConsumer == TotalItems \div NumConsumers
AllTags == 1..TotalItems
ProducerOf(x) == ((x - 1) \div ItemsPerProducer) + 1

\* Mutants of the std::queue operations: front() that reads the back, and
\* pop() that removes nothing.
FrontReadsBack(q) == q[Len(q)]
PopFrontKeeps(q) == q

\* A queue whose push puts the element at the front.
PushFront(q, x) == <<x>> \o q

\* std::queue operations.
PushBack(q, x) == Append(q, x)
Front(q) == Head(q)
PopFront(q) == Tail(q)

\* Mutants of the push predicate: an off-by-one bound, and a bound that is
\* switched off when max_size_ is 0.
PushPredicateOffByOne == Len(q_) <= max_size_
PushPredicateZeroUnbounded == max_size_ = 0 \/ Len(q_) < max_size_
\* A wait that is an `if`, not a loop: the push that has blocked once goes
\* on after its wakeup without looking at the queue again.
PushPredicateNotRechecked ==
    Len(q_) < max_size_ \/ waited[mtx_]

\* The predicate of cv_full_.wait in push.
PushPredicate == Len(q_) < max_size_
\* The predicate of cv_empty_.wait in pop.
PopPredicate == q_ # <<>>

\* A notify_one that wakes nobody.
NotifyNobody(cv) == {NoThread}

\* notify_one on a condition variable: nobody when nothing waits, else one
\* of the waiters, whichever the implementation picks.
NotifyOne(cv) == IF cv = {} THEN {NoThread} ELSE cv

InitQ ==
    /\ q_ = <<>>
    /\ max_size_ \in 0..MaxCap
    /\ mtx_ = NoThread
    /\ cv_empty_ = {}
    /\ cv_full_ = {}
    /\ pcQ = [t \in QThreads |-> "idle"]
    /\ sent = [p \in Producers |-> 0]
    /\ taken = [c \in Consumers |-> 0]
    /\ popped = <<>>
    /\ depth = <<>>
    /\ pushed = <<>>
    /\ waited = [p \in Producers |-> FALSE]
    /\ recording \in BOOLEAN

\* A producer leaves its sleep_for and calls queue.push(...).
CallPush(p) ==
    /\ pcQ[p] = "idle"
    /\ sent[p] < ItemsPerProducer
    /\ pcQ' = [pcQ EXCEPT ![p] = "lock"]
    /\ waited' = [waited EXCEPT ![p] = FALSE]
    /\ UNCHANGED <<q_, max_size_, mtx_, cv_empty_, cv_full_, sent, taken,
                   popped, depth, pushed, recording, pvars>>

\* A consumer leaves its sleep_for and calls queue.pop().
CallPop(c) ==
    /\ pcQ[c] = "idle"
    /\ taken[c] < PopsPerConsumer
    /\ pcQ' = [pcQ EXCEPT ![c] = "lock"]
    /\ UNCHANGED <<q_, max_size_, mtx_, cv_empty_, cv_full_, sent, taken,
                   popped, depth, pushed, waited, recording, pvars>>

\* A lock that is granted although another thread holds the mutex.
LockQNoExclusion(t) ==
    /\ pcQ[t] = "lock"
    /\ mtx_' = t
    /\ pcQ' = [pcQ EXCEPT ![t] = "crit"]
    /\ UNCHANGED <<q_, max_size_, cv_empty_, cv_full_, sent, taken, popped,
                   depth, pushed, waited, recording, pvars>>

\* std::unique_lock<std::mutex> lock(mtx_), and the re-lock inside wait().
LockQ(t) ==
    /\ pcQ[t] = "lock"
    /\ mtx_ = NoThread
    /\ mtx_' = t
    /\ pcQ' = [pcQ EXCEPT ![t] = "crit"]
    /\ UNCHANGED <<q_, max_size_, cv_empty_, cv_full_, sent, taken, popped,
                   depth, pushed, waited, recording, pvars>>

\* push: the predicate is false, the thread releases mtx_ and blocks.
PushWait(p) ==
    /\ pcQ[p] = "crit"
    /\ mtx_ = p
    /\ ~PushPredicate
    /\ cv_full_' = cv_full_ \cup {p}
    /\ mtx_' = NoThread
    /\ pcQ' = [pcQ EXCEPT ![p] = "waiting"]
    /\ waited' = [waited EXCEPT ![p] = recording]
    /\ UNCHANGED <<q_, max_size_, cv_empty_, sent, taken, popped, depth,
                   pushed, recording, pvars>>

\* A push that notifies only when it stores into an empty queue.
PushDoneNotifiesOnFirstOnly(p) ==
    /\ pcQ[p] = "crit"
    /\ mtx_ = p
    /\ PushPredicate
    /\ q_' = PushBack(q_, Item(p, sent[p]))
    /\ pushed' = Append(pushed, Item(p, sent[p]))
    /\ sent' = [sent EXCEPT ![p] = @ + 1]
    /\ \E w \in (IF q_ = <<>> THEN NotifyOne(cv_empty_) ELSE {NoThread}) :
          /\ cv_empty_' = cv_empty_ \ {w}
          /\ pcQ' = [t \in QThreads |->
                       IF t = p THEN (IF sent[p] + 1 < ItemsPerProducer
                                        THEN "idle" ELSE "done")
                       ELSE IF t = w THEN "lock" ELSE pcQ[t]]
    /\ mtx_' = NoThread
    /\ UNCHANGED <<max_size_, cv_full_, taken, popped, depth, waited,
                   recording, pvars>>

\* push: the predicate holds; q_.push, cv_empty_.notify_one, unlock, return.
PushDone(p) ==
    /\ pcQ[p] = "crit"
    /\ mtx_ = p
    /\ PushPredicate
    /\ q_' = PushBack(q_, Item(p, sent[p]))
    /\ pushed' = Append(pushed, Item(p, sent[p]))
    /\ sent' = [sent EXCEPT ![p] = @ + 1]
    /\ \E w \in NotifyOne(cv_empty_) :
          /\ cv_empty_' = cv_empty_ \ {w}
          /\ pcQ' = [t \in QThreads |->
                       IF t = p THEN (IF sent[p] + 1 < ItemsPerProducer
                                        THEN "idle" ELSE "done")
                       ELSE IF t = w THEN "lock" ELSE pcQ[t]]
    /\ mtx_' = NoThread
    /\ UNCHANGED <<max_size_, cv_full_, taken, popped, depth, waited,
                   recording, pvars>>

\* pop: the predicate is false, the thread releases mtx_ and blocks.
PopWait(c) ==
    /\ pcQ[c] = "crit"
    /\ mtx_ = c
    /\ ~PopPredicate
    /\ cv_empty_' = cv_empty_ \cup {c}
    /\ mtx_' = NoThread
    /\ pcQ' = [pcQ EXCEPT ![c] = "waiting"]
    /\ UNCHANGED <<q_, max_size_, cv_full_, sent, taken, popped, depth,
                   pushed, waited, recording, pvars>>

\* pop: the predicate holds; front, q_.pop, cv_full_.notify_one, unlock,
\* return item.
PopDone(c) ==
    /\ pcQ[c] = "crit"
    /\ mtx_ = c
    /\ PopPredicate
    /\ popped' = Append(popped, Front(q_))
    /\ depth' = IF recording THEN Append(depth, Len(q_)) ELSE depth
    /\ q_' = PopFront(q_)
    /\ taken' = [taken EXCEPT ![c] = @ + 1]
    /\ \E w \in NotifyOne(cv_full_) :
          /\ cv_full_' = cv_full_ \ {w}
          /\ pcQ' = [t \in QThreads |->
                       IF t = c THEN (IF taken[c] + 1 < PopsPerConsumer
                                        THEN "idle" ELSE "done")
                       ELSE IF t = w THEN "lock" ELSE pcQ[t]]
    /\ mtx_' = NoThread
    /\ UNCHANGED <<max_size_, cv_empty_, sent, pushed, waited, recording,
                   pvars>>

\* A spurious wakeup of a thread blocked in either wait.
SpuriousQ(t) ==
    /\ pcQ[t] = "waiting"
    /\ cv_empty_' = cv_empty_ \ {t}
    /\ cv_full_' = cv_full_ \ {t}
    /\ pcQ' = [pcQ EXCEPT ![t] = "lock"]
    /\ UNCHANGED <<q_, max_size_, mtx_, sent, taken, popped, depth, pushed,
                   waited, recording, pvars>>

\* ------------------------------------------------------------ ThreadPool
Workers == 1..NumWorkers
Clients == (NumWorkers + 1)..(NumWorkers + NumClients)
Owner == NumWorkers + NumClients + 1

\* Mutants of the pool's conditions: a worker that exits on stop alone, a
\* join that does not wait, an enqueue that never checks stop.
ExitOnStopAlone == stop
JoinedNoWait(w) == TRUE
EnqueueNeverRejects == FALSE
\* A join loop that joins the first worker in every iteration.
JoinedFirstOnly(w) == pcW[1] = "exited"

\* The predicate of condition.wait in the worker loop.
WaitPredicate == stop \/ tasks # <<>>
\* `if (this->stop && this->tasks.empty()) return;`
ExitCondition == stop /\ tasks = <<>>
\* `if (stop) throw std::runtime_error(...)` in enqueue.
EnqueueRejects == stop
\* worker.join() returns once the thread has left its entry function.
Joined(w) == pcW[w] = "exited"
\* task(): the body returns, or an exception leaves it.
TaskOutcomes == {"returns", "throws"}
\* The worker threads that have not left their thread function.
LiveWorkers == {w \in Workers : pcW[w] # "exited"}

InitPool ==
    /\ tasks = <<>>
    /\ stop = FALSE
    /\ queue_mutex = NoThread
    /\ condition = {}
    /\ pcW = [w \in Workers |-> "lock"]
    /\ cur = [w \in Workers |-> 0]
    /\ started = <<>>
    /\ pcC = [c \in Clients |-> "idle"]
    /\ arg = [c \in Clients |-> 0]
    /\ nextTask = 1
    /\ accepted = {}
    /\ rejected = {}
    /\ pcD = "alive"
    /\ joinIdx = 1
    /\ queuedAtStop = <<>>
    /\ terminated = FALSE

\* Worker: std::unique_lock<std::mutex> lock(this->queue_mutex), and the
\* re-lock inside wait().
WorkerLock(w) ==
    /\ ~terminated
    /\ pcW[w] = "lock"
    /\ queue_mutex = NoThread
    /\ queue_mutex' = w
    /\ pcW' = [pcW EXCEPT ![w] = "crit"]
    /\ UNCHANGED <<tasks, stop, condition, cur, started, pcC, arg, nextTask,
                   accepted, rejected, pcD, joinIdx, queuedAtStop,
                   terminated, qvars>>

\* Worker: the wait predicate is false; release the mutex and block.
WorkerWait(w) ==
    /\ ~terminated
    /\ pcW[w] = "crit"
    /\ queue_mutex = w
    /\ ~WaitPredicate
    /\ condition' = condition \cup {w}
    /\ queue_mutex' = NoThread
    /\ pcW' = [pcW EXCEPT ![w] = "waiting"]
    /\ UNCHANGED <<tasks, stop, cur, started, pcC, arg, nextTask,
                   accepted, rejected, pcD, joinIdx, queuedAtStop,
                   terminated, qvars>>

\* Worker: stop is set and the queue is empty; return from the thread
\* function (the lock is released on the way out).
WorkerExit(w) ==
    /\ ~terminated
    /\ pcW[w] = "crit"
    /\ queue_mutex = w
    /\ WaitPredicate
    /\ ExitCondition
    /\ queue_mutex' = NoThread
    /\ pcW' = [pcW EXCEPT ![w] = "exited"]
    /\ UNCHANGED <<tasks, stop, condition, cur, started, pcC, arg, nextTask,
                   accepted, rejected, pcD, joinIdx, queuedAtStop,
                   terminated, qvars>>

\* A worker that calls task() inside the lock's scope.
WorkerTakeKeepsLock(w) ==
    /\ ~terminated
    /\ pcW[w] = "crit"
    /\ queue_mutex = w
    /\ WaitPredicate
    /\ ~ExitCondition
    /\ tasks # <<>>
    /\ cur' = [cur EXCEPT ![w] = Front(tasks)]
    /\ started' = Append(started, Front(tasks))
    /\ tasks' = PopFront(tasks)
    /\ pcW' = [pcW EXCEPT ![w] = "run"]
    /\ UNCHANGED <<stop, queue_mutex, condition, pcC, arg, nextTask,
                   accepted, rejected, pcD, joinIdx, queuedAtStop,
                   terminated, qvars>>

\* Worker: move the front task out, pop it, release the mutex.
WorkerTake(w) ==
    /\ ~terminated
    /\ pcW[w] = "crit"
    /\ queue_mutex = w
    /\ WaitPredicate
    /\ ~ExitCondition
    /\ tasks # <<>>
    /\ cur' = [cur EXCEPT ![w] = Front(tasks)]
    /\ started' = Append(started, Front(tasks))
    /\ tasks' = PopFront(tasks)
    /\ queue_mutex' = NoThread
    /\ pcW' = [pcW EXCEPT ![w] = "run"]
    /\ UNCHANGED <<stop, condition, pcC, arg, nextTask,
                   accepted, rejected, pcD, joinIdx, queuedAtStop,
                   terminated, qvars>>

\* Worker: task() runs outside the lock.  When the body returns the worker
\* loops; when it throws, the exception leaves the thread's entry function
\* (nothing catches it) and std::terminate ends the process.
WorkerRun(w) ==
    /\ ~terminated
    /\ pcW[w] = "run"
    /\ \E outcome \in TaskOutcomes :
          IF outcome = "returns"
            THEN /\ pcW' = [pcW EXCEPT ![w] = "lock"]
                 /\ cur' = [cur EXCEPT ![w] = 0]
                 /\ UNCHANGED terminated
            ELSE /\ terminated' = TRUE
                 /\ UNCHANGED <<pcW, cur>>
    /\ UNCHANGED <<tasks, stop, queue_mutex, condition, started, pcC, arg,
                   nextTask, accepted, rejected, pcD, joinIdx,
                   queuedAtStop, qvars>>

\* A spurious wakeup of a worker blocked in condition.wait.
WorkerSpurious(w) ==
    /\ ~terminated
    /\ pcW[w] = "waiting"
    /\ condition' = condition \ {w}
    /\ pcW' = [pcW EXCEPT ![w] = "lock"]
    /\ UNCHANGED <<tasks, stop, queue_mutex, cur, started, pcC, arg, nextTask,
                   accepted, rejected, pcD, joinIdx, queuedAtStop,
                   terminated, qvars>>

\* enqueue: a client calls enqueue(f) on the live pool with a fresh task
\* and acquires queue_mutex.
EnqueueLock(c) ==
    /\ ~terminated
    /\ pcC[c] = "idle"
    /\ pcD # "done"
    /\ nextTask <= MaxTasks
    /\ queue_mutex = NoThread
    /\ queue_mutex' = c
    /\ arg' = [arg EXCEPT ![c] = nextTask]
    /\ nextTask' = nextTask + 1
    /\ pcC' = [pcC EXCEPT ![c] = "crit"]
    /\ UNCHANGED <<tasks, stop, condition, pcW, cur, started,
                   accepted, rejected, pcD, joinIdx, queuedAtStop,
                   terminated, qvars>>

\* An enqueue that stores the task before it checks stop.
EnqueueThrowStores(c) ==
    /\ ~terminated
    /\ pcC[c] = "crit"
    /\ queue_mutex = c
    /\ EnqueueRejects
    /\ tasks' = PushBack(tasks, arg[c])
    /\ rejected' = rejected \cup {arg[c]}
    /\ queue_mutex' = NoThread
    /\ pcC' = [pcC EXCEPT ![c] = "idle"]
    /\ UNCHANGED <<stop, condition, pcW, cur, started, arg, nextTask,
                   accepted, pcD, joinIdx, queuedAtStop, terminated, qvars>>

\* An enqueue that clears stop on its rejecting path.
EnqueueThrowClearsStop(c) ==
    /\ ~terminated
    /\ pcC[c] = "crit"
    /\ queue_mutex = c
    /\ stop
    /\ stop' = FALSE
    /\ rejected' = rejected \cup {arg[c]}
    /\ queue_mutex' = NoThread
    /\ pcC' = [pcC EXCEPT ![c] = "idle"]
    /\ UNCHANGED <<tasks, condition, pcW, cur, started, arg, nextTask,
                   accepted, pcD, joinIdx, queuedAtStop, terminated, qvars>>

\* enqueue: stop is set; throw std::runtime_error (the lock is released by
\* the unwinding, nothing is stored, nobody is notified).
EnqueueThrow(c) ==
    /\ ~terminated
    /\ pcC[c] = "crit"
    /\ queue_mutex = c
    /\ EnqueueRejects
    /\ rejected' = rejected \cup {arg[c]}
    /\ queue_mutex' = NoThread
    /\ pcC' = [pcC EXCEPT ![c] = "idle"]
    /\ UNCHANGED <<tasks, stop, condition, pcW, cur, started, arg, nextTask,
                   accepted, pcD, joinIdx, queuedAtStop, terminated, qvars>>

\* enqueue: tasks.emplace(f), then the lock's scope ends.
EnqueueStore(c) ==
    /\ ~terminated
    /\ pcC[c] = "crit"
    /\ queue_mutex = c
    /\ ~EnqueueRejects
    /\ tasks' = PushBack(tasks, arg[c])
    /\ accepted' = accepted \cup {arg[c]}
    /\ queue_mutex' = NoThread
    /\ pcC' = [pcC EXCEPT ![c] = "notify"]
    /\ UNCHANGED <<stop, condition, pcW, cur, started, arg, nextTask,
                   rejected, pcD, joinIdx, queuedAtStop, terminated, qvars>>

\* enqueue: condition.notify_one() after the lock is released; return.
EnqueueNotify(c) ==
    /\ ~terminated
    /\ pcC[c] = "notify"
    /\ \E w \in NotifyOne(condition) :
          /\ condition' = condition \ {w}
          /\ pcW' = [x \in Workers |-> IF x = w THEN "lock" ELSE pcW[x]]
    /\ pcC' = [pcC EXCEPT ![c] = "idle"]
    /\ UNCHANGED <<tasks, stop, queue_mutex, cur, started, arg, nextTask,
                   accepted, rejected, pcD, joinIdx, queuedAtStop,
                   terminated, qvars>>

\* ~ThreadPool: std::unique_lock<std::mutex> lock(queue_mutex).
DtorLock ==
    /\ ~terminated
    /\ pcD = "alive"
    /\ queue_mutex = NoThread
    /\ queue_mutex' = Owner
    /\ pcD' = "crit"
    /\ UNCHANGED <<tasks, stop, condition, pcW, cur, started, pcC, arg,
                   nextTask, accepted, rejected, joinIdx, queuedAtStop,
                   terminated, qvars>>

\* A destructor whose lock lives until the destructor's end.
DtorStopKeepsLock ==
    /\ ~terminated
    /\ pcD = "crit"
    /\ queue_mutex = Owner
    /\ stop' = TRUE
    /\ queuedAtStop' = tasks
    /\ pcD' = "notify"
    /\ UNCHANGED <<tasks, queue_mutex, condition, pcW, cur, started, pcC, arg,
                   nextTask, accepted, rejected, joinIdx, terminated, qvars>>

\* ~ThreadPool: stop = true, then the lock's scope ends.
DtorStop ==
    /\ ~terminated
    /\ pcD = "crit"
    /\ queue_mutex = Owner
    /\ stop' = TRUE
    /\ queuedAtStop' = tasks
    /\ queue_mutex' = NoThread
    /\ pcD' = "notify"
    /\ UNCHANGED <<tasks, condition, pcW, cur, started, pcC, arg,
                   nextTask, accepted, rejected, joinIdx, terminated, qvars>>

\* ~ThreadPool: condition.notify_all().
DtorNotifyAll ==
    /\ ~terminated
    /\ pcD = "notify"
    /\ pcW' = [w \in Workers |-> IF w \in condition THEN "lock" ELSE pcW[w]]
    /\ condition' = {}
    /\ pcD' = "join"
    /\ UNCHANGED <<tasks, stop, queue_mutex, cur, started, pcC, arg,
                   nextTask, accepted, rejected, joinIdx, queuedAtStop,
                   terminated, qvars>>

\* ~ThreadPool: worker.join() for the next worker of `workers`, then the
\* loop's next iteration or the destructor's return.
DtorJoin ==
    /\ ~terminated
    /\ pcD = "join"
    /\ Joined(joinIdx)
    /\ IF joinIdx < NumWorkers
         THEN /\ joinIdx' = joinIdx + 1
              /\ UNCHANGED pcD
         ELSE /\ pcD' = "done"
              /\ UNCHANGED joinIdx
    /\ UNCHANGED <<tasks, stop, queue_mutex, condition, pcW, cur, started,
                   pcC, arg, nextTask, accepted, rejected, queuedAtStop,
                   terminated, qvars>>

\* ------------------------------------------------------- specifications
NextQueue ==
    \/ \E p \in Producers : CallPush(p) \/ PushWait(p) \/ PushDone(p)
    \/ \E c \in Consumers : CallPop(c) \/ PopWait(c) \/ PopDone(c)
    \/ \E t \in QThreads : LockQ(t) \/ SpuriousQ(t)

NextPool ==
    \/ \E w \in Workers : \/ WorkerLock(w) \/ WorkerWait(w) \/ WorkerExit(w)
                          \/ WorkerTake(w) \/ WorkerRun(w) \/ WorkerSpurious(w)
    \/ \E c \in Clients : \/ EnqueueLock(c) \/ EnqueueThrow(c)
                          \/ EnqueueStore(c) \/ EnqueueNotify(c)
    \/ DtorLock \/ DtorStop \/ DtorNotifyAll \/ DtorJoin

Init == InitQ /\ InitPool

\* The bounded queue driven by its producers and consumers.
SpecQueue == Init /\ [][NextQueue]_vars

\* Fair scheduling of the queue's threads: a thread that can take its next
\* step eventually takes it, and a thread that can acquire mtx_ again and
\* again eventually acquires it.  Nothing obliges a spurious wakeup to
\* happen.
FairQueue ==
    /\ \A p \in Producers :
          /\ WF_vars(CallPush(p))
          /\ WF_vars(PushWait(p) \/ PushDone(p))
    /\ \A c \in Consumers :
          /\ WF_vars(CallPop(c))
          /\ WF_vars(PopWait(c) \/ PopDone(c))
    /\ \A t \in QThreads : SF_vars(LockQ(t))

\* The fair runs are checked without the two history variables that only
\* record what a run has done.
InitQueueFair == Init /\ ~recording
SpecQueueFair == InitQueueFair /\ [][NextQueue]_vars /\ FairQueue

\* The thread pool driven by its workers, its clients and its destructor.
InitPoolOnly == Init /\ max_size_ = MaxCap /\ recording
SpecPool == InitPoolOnly /\ [][NextPool]_vars

\* Fair scheduling of the pool's threads: a thread that can take its next
\* step eventually takes it.  Nothing obliges a client to call enqueue, the
\* owner to destroy the pool, or a spurious wakeup to happen.
FairPool ==
    /\ \A w \in Workers :
          /\ WF_vars(WorkerLock(w))
          /\ WF_vars(WorkerWait(w) \/ WorkerExit(w) \/ WorkerTake(w))
          /\ WF_vars(WorkerRun(w))
    /\ \A c \in Clients :
          WF_vars(EnqueueThrow(c) \/ EnqueueStore(c) \/ EnqueueNotify(c))
    /\ WF_vars(DtorStop \/ DtorNotifyAll \/ DtorJoin)

SpecPoolFair == InitPoolOnly /\ [][NextPool]_vars /\ FairPool

\* Either program: a run is a run of the queue's demo or a run of the
\* pool's demo.
NextPrograms ==
    \/ InitPool /\ NextQueue
    \/ InitQ /\ max_size_ = MaxCap /\ recording /\ NextPool

SpecPrograms == Init /\ [][NextPrograms]_vars

\* ---------------------------------------------------------------- claims
\* The elements of a sequence, and whether it repeats one.
Range(f) == {f[i] : i \in 1..Len(f)}
NoRepeats(f) == \A i, j \in 1..Len(f) : i # j => f[i] # f[j]

\* C1: capacity invariant.  For a queue built with max_size C > 0, under
\* every interleaving of the producers' pushes and the consumers' pops
\* (spurious wakeups included) the queue never holds more than C items.
C1_CapacityInvariant == max_size_ > 0 => Len(q_) <= max_size_

\* C1 witness: a bounded queue is full and a producer that found it full
\* is blocked in cv_full_.wait.
C1_Witness ==
    max_size_ > 0 /\ Len(q_) = max_size_ /\ cv_full_ # {}

\* C2: FIFO.  The items of one producer leave the queue in the order that
\* producer pushed them: reading the popped items and then the queue, the
\* tags of any one producer appear in ascending order (a producer pushes its
\* tags in ascending order), so n pushes P1..Pn followed by n pops return
\* P1..Pn.
C2_Fifo ==
    LET full == popped \o q_
    IN  \A a, b \in 1..Len(full) :
           (a < b /\ ProducerOf(full[a]) = ProducerOf(full[b]))
               => full[a] < full[b]

\* C2 witness: producer 1 pushed its first two items before any pop (the
\* first pop found both in the queue), nothing of producer 2 was in
\* between, and the first two pops returned them in push order.
C2_Witness ==
    /\ recording
    /\ Len(popped) >= 2
    /\ depth[1] = 2 /\ depth[2] = 1
    /\ popped[1] = Item(1, 0) /\ popped[2] = Item(1, 1)

\* C3: no loss and no duplication.  Every tag pushed so far is in exactly
\* one place, the queue or the popped items, exactly once; and when the
\* consumers have made their M x K pops, every tag has been returned by
\* exactly one pop.
C3_NoLossNoDup ==
    /\ NoRepeats(popped \o q_)
    /\ Range(popped \o q_) =
          UNION {{Item(p, j) : j \in 0..(sent[p] - 1)} : p \in Producers}
    /\ Len(popped) = TotalItems => Range(popped) = AllTags

\* C3 witness: both producers and both consumers are done and all M x K
\* pops have returned.
C3_Witness ==
    /\ \A t \in QThreads : pcQ[t] = "done"
    /\ Len(popped) = TotalItems
    /\ TotalItems >= 4

\* C4: exactly-once execution across shutdown.  No task is dequeued twice
\* and only accepted tasks are dequeued; when the destructor has returned,
\* the tasks executed are exactly the accepted ones, each once, and none is
\* left queued or running.
C4_ExactlyOnce ==
    /\ NoRepeats(started)
    /\ Range(started) \subseteq accepted
    /\ pcD = "done" =>
          /\ Range(started) = accepted
          /\ Len(started) = Cardinality(accepted)
          /\ tasks = <<>>
          /\ \A w \in Workers : cur[w] = 0

\* C4 witness: the destructor has returned after two accepted tasks.
C4_Witness == pcD = "done" /\ Cardinality(accepted) >= 2

\* C5: join semantics.  The destructor has returned only if every worker
\* has left its loop: none is waiting, locking, dequeuing or executing.
C5_JoinSemantics ==
    pcD = "done" => \A w \in Workers : pcW[w] = "exited"

\* C5 witness: the destructor has returned and the workers had run tasks.
C5_Witness == pcD = "done" /\ started # <<>>

\* C6: close drains before failing.  A worker has exited only if stop is set
\* and the queue is empty; and once stop is set, the tasks that were queued
\* at that moment are dequeued in their queue order: what has been dequeued
\* since, followed by what is still queued, is the queue as it was.
C6_CloseDrains ==
    /\ (\E w \in Workers : pcW[w] = "exited") => (stop /\ tasks = <<>>)
    /\ stop =>
          \E k \in 0..Len(started) :
              SubSeq(started, k + 1, Len(started)) \o tasks = queuedAtStop

\* C6 witness: stop was set while two tasks were queued, and a worker has
\* since exited.
C6_Witness ==
    /\ Len(queuedAtStop) >= 2
    /\ \E w \in Workers : pcW[w] = "exited"

\* C7: post-shutdown rejection.  In every step in which a client's enqueue
\* leaves its critical section while stop is set, the call throws: its task
\* is rejected and the client is back in its caller.  While stop is set no
\* step appends to the queue (workers may still take its front) or accepts
\* a task.  enqueue has no wait: a client is never among the threads blocked
\* on the condition variable.
C7_PostShutdownRejection ==
    [][
        /\ \A c \in Clients :
               (stop /\ pcC[c] = "crit" /\ pcC'[c] # "crit")
                   => (arg[c] \in rejected' /\ pcC'[c] = "idle")
        /\ stop => (tasks' = tasks \/ (tasks # <<>> /\ tasks' = Tail(tasks)))
        /\ stop => accepted' = accepted
        /\ condition' \cap Clients = {}
    ]_vars

\* C7 witness: stop is set and an enqueue made after that was rejected
\* while the destructor was still joining.
C7_Witness == stop /\ rejected # {} /\ pcD = "join"

\* C8: task fault isolation, as claimed: no task fault ends the process;
\* the worker that ran the faulting task goes on to poll for the next one.
C8_FaultIsolated == ~terminated

Returned(t) == pcQ[t] \in {"idle", "done"}

\* The scenario of a channel of capacity 2 in which the items 1, 2 and 3 are
\* pushed in that order.
ScenarioPushes ==
    /\ max_size_ = 2
    /\ Len(pushed) >= 3
    /\ SubSeq(pushed, 1, 3) = <<1, 2, 3>>

\* A push() leaving its critical section in a channel of capacity 2: with
\* fewer than 2 items it stores its item and returns, with 2 it stores nothing
\* and blocks in cv_full_.
ScenarioPushStep(p) ==
    (pcQ[p] = "crit" /\ pcQ'[p] # "crit") =>
        IF Len(q_) < 2
          THEN /\ q_' = Append(q_, Item(p, sent[p]))
               /\ pcQ'[p] \in {"idle", "done"}
          ELSE /\ q_' = q_
               /\ pcQ'[p] = "waiting"
               /\ p \in cv_full_'

\* A pop() returns the head and, when a push is blocked, wakes one blocked
\* push, which then finds room.
ScenarioPopStep ==
    (popped' # popped) =>
        /\ q_ # <<>>
        /\ popped' = Append(popped, Head(q_))
        /\ q_' = Tail(q_)
        /\ cv_full_ # {} =>
              (\E w \in cv_full_ : w \notin cv_full_' /\ pcQ'[w] = "lock")
        /\ Len(q_') < 2

\* C11: in a channel of capacity 2, push(1) and push(2) complete without
\* blocking, a push arriving while the channel holds 2 items blocks and
\* stores nothing, a pop returns the head and wakes the blocked push, and
\* when 1, 2, 3 were pushed in that order the first three pops return
\* 1, 2, 3 in that order.
C11_Backpressure ==
    /\ [](max_size_ = 2 =>
            /\ \A p \in Producers :
                   waited[p] =>
                       IF Returned(p)
                         THEN \E i \in 3..Len(pushed) :
                                  pushed[i] = Item(p, sent[p] - 1)
                         ELSE Len(pushed) >= 2
            /\ (ScenarioPushes /\ Len(popped) >= 3) =>
                   (SubSeq(popped, 1, 3) = <<1, 2, 3>>))
    /\ [][max_size_ = 2 =>
            /\ \A p \in Producers : ScenarioPushStep(p)
            /\ ScenarioPopStep]_vars

\* The scenario has happened: 1 and 2 were stored without blocking, push(3)
\* blocked, the first pop found 2 items, and three pops returned 1, 2, 3.
C11_Witness ==
    /\ recording
    /\ ScenarioPushes
    /\ \E p \in Producers :
          /\ Returned(p)
          /\ sent[p] >= 1
          /\ Item(p, sent[p] - 1) = 3
          /\ waited[p]
    /\ Len(popped) >= 3
    /\ SubSeq(popped, 1, 3) = <<1, 2, 3>>
    /\ depth[1] = 2

\* C12: under fair scheduling, once the destructor has set stop, every
\* worker eventually exits and the destructor eventually returns.
C12_ShutdownLiveness ==
    /\ stop ~> (pcD = "done")
    /\ \A w \in Workers : stop ~> (pcW[w] = "exited")


\* C13: once stop is true, it is false in no later state.
C13_StopMonotonic == [][stop => stop']_vars

\* stop was set and has stayed set through rejected enqueues, the workers'
\* exits and the destructor's return.
C13_Witness ==
    /\ stop
    /\ pcD = "done"
    /\ rejected # {}


\* C14 as claimed: until the destructor has returned the number of live
\* worker threads is N, and after it has returned no worker is alive.
C14_LiveUntilShutdownDone ==
    /\ pcD # "done" => Cardinality(LiveWorkers) = NumWorkers
    /\ pcD = "done" => LiveWorkers = {}

\* C14: until stop is set no worker thread has left its loop, so N are
\* live; after the destructor has returned no worker is alive.
C14_LiveUntilStop ==
    /\ ~stop => Cardinality(LiveWorkers) = NumWorkers
    /\ pcD = "done" => LiveWorkers = {}

\* The destructor has returned after tasks were accepted and run, and no
\* worker is alive.
C14_Witness ==
    /\ pcD = "done"
    /\ LiveWorkers = {}
    /\ accepted # {}
    /\ started # <<>>


\* C15: a worker that is executing a task body does not hold queue_mutex.
C15_TaskRunsUnlocked ==
    \A w \in Workers : pcW[w] = "run" => queue_mutex # w

\* A worker is executing a task body while another thread holds
\* queue_mutex inside enqueue or the worker loop.
C15_Witness ==
    \E w \in Workers :
        /\ pcW[w] = "run"
        /\ queue_mutex \in (Workers \cup Clients) \ {w}


\* A step of a thread that is inside the worker loop, inside enqueue or
\* inside the destructor's join loop, other than a spurious wakeup.
ShutdownProgress ==
    \/ DtorJoin
    \/ \E w \in Workers :
          WorkerLock(w) \/ WorkerExit(w) \/ WorkerTake(w) \/ WorkerRun(w)
    \/ \E c \in Clients :
          EnqueueThrow(c) \/ EnqueueStore(c) \/ EnqueueNotify(c)

\* C16: the destructor's thread does not hold queue_mutex while it
\* notifies or joins, and while it joins no worker is blocked in
\* condition.wait, no worker waits for a mutex held by the destructor, and
\* some thread can take a step.
C16_DeadlockFreeShutdown ==
    /\ pcD \in {"notify", "join"} => queue_mutex # Owner
    /\ (pcD = "join" /\ ~terminated) =>
          /\ condition = {}
          /\ \A w \in Workers : pcW[w] # "waiting"
          /\ ENABLED ShutdownProgress

\* The destructor is blocked in join() on a worker that is itself waiting
\* for queue_mutex, held by another thread.
C16_Witness ==
    /\ pcD = "join"
    /\ pcW[joinIdx] = "lock"
    /\ queue_mutex # NoThread


\* C17: a pop removes an item, and a worker takes a task, only in a step
\* where it holds the mutex and the queue is not empty; a push stores only
\* in a step where it holds the mutex and the queue is below max_size_; a
\* thread leaves its wait loop only in a state where its predicate holds.
C17_PredicateCheckedWaits ==
    [][/\ (popped' # popped) =>
            /\ mtx_ \in Consumers
            /\ pcQ[mtx_] = "crit"
            /\ q_ # <<>>
       /\ (pushed' # pushed) =>
            /\ mtx_ \in Producers
            /\ pcQ[mtx_] = "crit"
            /\ Len(q_) < max_size_
       /\ (started' # started) =>
            /\ queue_mutex \in Workers
            /\ pcW[queue_mutex] = "crit"
            /\ tasks # <<>>
       /\ \A p \in Producers :
            (pcQ[p] = "crit" /\ pcQ'[p] \in {"idle", "done"}) =>
                (mtx_ = p /\ Len(q_) < max_size_)
       /\ \A c \in Consumers :
            (pcQ[c] = "crit" /\ pcQ'[c] \in {"idle", "done"}) =>
                (mtx_ = c /\ q_ # <<>>)
       /\ \A w \in Workers :
            (pcW[w] = "crit" /\ pcW'[w] \in {"run", "exited"}) =>
                (queue_mutex = w /\ (stop \/ tasks # <<>>))]_vars

\* A push that has blocked before holds the mutex again after a wakeup and
\* finds the queue of a positive capacity still full.
C17_Witness ==
    \E p \in Producers :
        /\ pcQ[p] = "crit"
        /\ mtx_ = p
        /\ waited[p]
        /\ max_size_ > 0
        /\ Len(q_) >= max_size_


\* A thread that was woken, or has just called, and is on its way to
\* evaluate its predicate under mtx_.
OnItsWay(t) == pcQ[t] \in {"lock", "crit"}

\* C18: under fair scheduling a consumer blocked in pop while the queue
\* holds an item eventually returns from pop, and a producer blocked in
\* push while the queue has room eventually returns from push; and in no
\* state is a thread blocked with its predicate true while no thread of
\* its kind is on its way to the queue.
C18_NoLostWakeup ==
    /\ \A c \in Consumers :
          (pcQ[c] = "waiting" /\ q_ # <<>>) ~> Returned(c)
    /\ \A p \in Producers :
          (pcQ[p] = "waiting" /\ Len(q_) < max_size_) ~> Returned(p)
    /\ []((cv_empty_ # {} /\ q_ # <<>>) =>
             (\E c \in Consumers : OnItsWay(c)))
    /\ []((cv_full_ # {} /\ Len(q_) < max_size_) =>
             (\E p \in Producers : OnItsWay(p)))

\* A consumer is still blocked although an item is in the queue (the
\* notify_one went to the other consumer), after earlier pops.
C18_Witness ==
    /\ \E c \in Consumers : pcQ[c] = "waiting" /\ q_ # <<>>
    /\ popped # <<>>


\* C19: the step in which an enqueue fails because stop is set leaves the
\* task queue, the stop flag, the set of workers blocked in condition.wait
\* and every worker's position unchanged, and the task is not accepted.
C19_RejectedSubmitNoEffect ==
    [][\A c \in Clients :
         (pcC[c] = "crit" /\ stop /\ pcC'[c] # "crit") =>
             /\ pcC'[c] = "idle"
             /\ arg[c] \in rejected'
             /\ tasks' = tasks
             /\ stop' = stop
             /\ condition' = condition
             /\ pcW' = pcW
             /\ accepted' = accepted
             /\ started' = started]_vars

\* An enqueue was rejected while a task is still queued and a worker is
\* still blocked in condition.wait.
C19_Witness ==
    /\ rejected # {}
    /\ condition # {}
    /\ tasks # <<>>


\* The threads inside a critical section of the queue, and of the pool.
InCriticalQ == {t \in QThreads : pcQ[t] = "crit"}
InCriticalPool ==
    {w \in Workers : pcW[w] = "crit"} \cup {c \in Clients : pcC[c] = "crit"}
        \cup (IF pcD = "crit" THEN {Owner} ELSE {})

\* C20: at most one thread is inside a critical section of a mutex, and it
\* is the thread recorded as the mutex's holder; q_ changes only in a step
\* of the holder of mtx_, tasks and stop change only in a step of the
\* holder of queue_mutex, and a thread acts on what it read from them only
\* as the holder.
C20_MutualExclusion ==
    /\ [](/\ Cardinality(InCriticalQ) <= 1
          /\ InCriticalQ = {mtx_} \ {NoThread}
          /\ Cardinality(InCriticalPool) <= 1
          /\ InCriticalPool = {queue_mutex} \ {NoThread})
    /\ [][/\ (q_' # q_) => (mtx_ \in InCriticalQ)
          /\ (tasks' # tasks \/ stop' # stop) =>
                (queue_mutex \in InCriticalPool)
          /\ \A t \in QThreads :
                (pcQ[t] = "crit" /\ pcQ'[t] # "crit") => mtx_ = t
          /\ \A w \in Workers :
                (pcW[w] = "crit" /\ pcW'[w] # "crit") => queue_mutex = w
          /\ \A c \in Clients :
                (pcC[c] = "crit" /\ pcC'[c] # "crit") => queue_mutex = c
          /\ (pcD = "crit" /\ pcD' # "crit") => queue_mutex = Owner]_vars

\* One thread is inside push or pop with mtx_ while two others are waiting
\* to acquire it.
C20_Witness ==
    /\ mtx_ # NoThread
    /\ Cardinality({t \in QThreads : pcQ[t] = "lock"}) >= 2

\* A sequence of numbers in strictly increasing order.
Increasing(f) == \A i, j \in 1..Len(f) : i < j => f[i] < f[j]

\* C21: the pool's tasks are dequeued in the order in which enqueue
\* appended them.  Tasks are numbered in the order in which their enqueue
\* calls took queue_mutex: the dequeued tasks followed by the queued ones
\* are in that order, an enqueue appends at the tail, and a worker removes
\* the head.
C21_PoolFifo ==
    /\ [](Increasing(started \o tasks))
    /\ [][(tasks' # tasks) =>
            \/ /\ started' = started
               /\ \E c \in Clients :
                     pcC[c] = "crit" /\ tasks' = Append(tasks, arg[c])
            \/ /\ tasks # <<>>
               /\ tasks' = Tail(tasks)
               /\ started' = Append(started, Head(tasks))]_vars

\* Two tasks were queued together when stop was set, and two different
\* workers have dequeued them in the order of their enqueues.
C21_Witness ==
    /\ Len(queuedAtStop) >= 2
    /\ Len(started) >= 2
    /\ SubSeq(started, Len(started) - 1, Len(started))
           = SubSeq(queuedAtStop, Len(queuedAtStop) - 1, Len(queuedAtStop))
    /\ \E v, w \in Workers :
          /\ v # w
          /\ cur[v] = started[Len(started) - 1]
          /\ cur[w] = started[Len(started)]

\* C22: under fair scheduling every task that enqueue has stored is
\* eventually dequeued by a worker, which then runs it.
C22_AcceptedTaskRuns ==
    \A k \in 1..MaxTasks : (k \in accepted) ~> (k \in Range(started))

\* All four threads of the demo have finished their loops and the queue
\* is empty.
AllFinished ==
    /\ \A t \in QThreads : pcQ[t] = "done"
    /\ q_ = <<>>

\* A step of a producer or consumer other than a spurious wakeup.
QueueProgress ==
    \/ \E p \in Producers : CallPush(p) \/ PushWait(p) \/ PushDone(p)
    \/ \E c \in Consumers : CallPop(c) \/ PopWait(c) \/ PopDone(c)
    \/ \E t \in QThreads : LockQ(t)

\* C23: with total pushes equal to total pops and a capacity of at least
\* 1, under fair scheduling every run of the demo ends with all four
\* threads finished and the queue empty, and no state before that is a
\* deadlock: some thread can take a step that is not a spurious wakeup.
C23_DemoTerminates ==
    /\ (max_size_ >= 1) ~> AllFinished
    /\ []((max_size_ >= 1 /\ ~AllFinished) => ENABLED QueueProgress)

\* The demo has ended on a queue smaller than the number of items: every
\* item was pushed and popped, all threads are finished, the queue is
\* empty.
C23_Witness ==
    /\ max_size_ >= 1
    /\ max_size_ < TotalItems
    /\ AllFinished
    /\ Len(popped) = TotalItems
    /\ \A p \in Producers : sent[p] = ItemsPerProducer
    /\ \A c \in Consumers : taken[c] = PopsPerConsumer

====
